---- MODULE Spec2Model ----
(***************************************************************************)
(* A model of scripts/build_csv.py: the American-odds conversion, the      *)
(* flattening of event -> bookmaker -> market -> outcome trees into rows   *)
(* (with the per-market proportional no-vig split the code computes), the  *)
(* FanDuel filter, and main's fetch loop and sequence of file writes.      *)
(*                                                                         *)
(* Representation.                                                         *)
(*  - A string that the code lower-cases or strips (bookmaker key, outcome *)
(*    name) is the sequence of its Unicode code points; None is NoneStr,   *)
(*    and a truthy value that is no string is NotStr.                      *)
(*    Any code point may occur but U+03A3, whose lower case depends on     *)
(*    its neighbours.                                                      *)
(*  - Any other string is a TLA+ string; None is NoneVal.                  *)
(*  - A price is a record [kind, val]: kind "num" (a JSON integer below    *)
(*    2^31 in size), "text" (a string float() rejects) or "none" (absent   *)
(*    or null).                                                            *)
(*  - A float is an IEEE-754 double [neg, m, e] of value                   *)
(*    (-1)^neg * m * 2^e, with the 53 significant bits aligned to the top  *)
(*    of 60; sums and quotients round to the nearest double, a tie to      *)
(*    even, as the machine does. The prices modelled never reach the       *)
(*    exponent limits of a double, so e is unbounded.                      *)
(*  - An Optional number is <<>> (None) or <<v>>; a rounded probability v  *)
(*    is the integer 10^6 * round(p, 6).                                   *)
(*  - A file is [exists, doc, header, rows]. A JSON file holds a complete  *)
(*    document, the list rows, when doc is TRUE; else what it holds is     *)
(*    the beginning of one, up to and including rows. A CSV file holds     *)
(*    the header line, if any, and the rows. A file with neither has 0     *)
(*    bytes.                                                               *)
(*  - pc is the line the process is at: in main, or, during one of main's  *)
(*    four write calls (the call numbered site), in write_json/write_csv.  *)
(*  - requests is the sequence of event ids main has asked the API for,    *)
(*    replies what the API answered to each (a body, or that it raised).   *)
(*  - rc is the exit status of the process, -1 while it has none (it is    *)
(*    running, or a signal killed it).                                     *)
(***************************************************************************)
EXTENDS Integers, Sequences, FiniteSets, TLC

VARIABLES pc, site, events, i, raw_out, all_rows, fanduel_rows,
          requests, replies, rc, files, arg, ret

vars == <<pc, site, events, i, raw_out, all_rows, fanduel_rows,
          requests, replies, rc, files, arg, ret>>

mainvars == <<site, events, i, raw_out, all_rows, fanduel_rows,
              requests, replies, rc, files>>

\* ---------------------------------------------------------------- bounds

MaxEvents == 2
MaxRunEvents == 1
MaxOutcomes == 3
MaxRows == 2
PriceBound == 120

\* ---------------------------------------------------------------- strings

NoneStr == <<-1>>
\* a JSON value in the place of such a string that is truthy and no string, as
\* the number 7 is: it has neither .lower() nor .strip()
NotStr == <<-2>>
NoneVal == "<None>"

\* "fanduel", "FanDuel", "fanduel ", "draftkings", and "FanDuel" with the
\* full-width F of U+FF26
s_fanduel == <<102, 97, 110, 100, 117, 101, 108>>
s_FanDuel == <<70, 97, 110, 68, 117, 101, 108>>
s_fanduel_sp == <<102, 97, 110, 100, 117, 101, 108, 32>>
s_draftkings == <<100, 114, 97, 102, 116, 107, 105, 110, 103, 115>>
s_FanDuel_fw == <<65318, 97, 110, 68, 117, 101, 108>>
\* "over", "under", "Over", "Under", "UNDER", " over", " under", "Over\f", "Yes"
s_over == <<111, 118, 101, 114>>
s_under == <<117, 110, 100, 101, 114>>
s_Over == <<79, 118, 101, 114>>
s_Under == <<85, 110, 100, 101, 114>>
s_UNDER == <<85, 78, 68, 69, 82>>
s_sp_over == <<32, 111, 118, 101, 114>>
s_sp_under == <<32, 117, 110, 100, 101, 114>>
s_Over_ff == <<79, 118, 101, 114, 12>>
s_Yes == <<89, 101, 115>>

\* the code points str.strip() removes: those str.isspace() accepts
Whitespace ==
    (9..13) \cup (28..32) \cup {133, 160, 5760} \cup (8192..8202)
    \cup {8232, 8233, 8239, 8287, 12288}

\* str.lower() beyond U+00BF, one code point to one: <<first, last, step, shift>>
\* says that first, first + step, ..., last each move by shift
LowerRanges ==
    <<<<192, 214, 1, 32>>, <<216, 222, 1, 32>>, <<256, 302, 2, 1>>, <<306, 310, 2, 1>>,
      <<313, 327, 2, 1>>, <<330, 374, 2, 1>>, <<376, 376, 1, -121>>,
      <<377, 381, 2, 1>>, <<385, 385, 1, 210>>, <<386, 388, 2, 1>>,
      <<390, 390, 1, 206>>, <<391, 391, 1, 1>>, <<393, 394, 1, 205>>,
      <<395, 395, 1, 1>>, <<398, 398, 1, 79>>, <<399, 399, 1, 202>>,
      <<400, 400, 1, 203>>, <<401, 401, 1, 1>>, <<403, 403, 1, 205>>,
      <<404, 404, 1, 207>>, <<406, 406, 1, 211>>, <<407, 407, 1, 209>>,
      <<408, 408, 1, 1>>, <<412, 412, 1, 211>>, <<413, 413, 1, 213>>,
      <<415, 415, 1, 214>>, <<416, 420, 2, 1>>, <<422, 422, 1, 218>>,
      <<423, 423, 1, 1>>, <<425, 425, 1, 218>>, <<428, 428, 1, 1>>,
      <<430, 430, 1, 218>>, <<431, 431, 1, 1>>, <<433, 434, 1, 217>>,
      <<435, 437, 2, 1>>, <<439, 439, 1, 219>>, <<440, 440, 1, 1>>, <<444, 444, 1, 1>>,
      <<452, 452, 1, 2>>, <<453, 453, 1, 1>>, <<455, 455, 1, 2>>, <<456, 456, 1, 1>>,
      <<458, 458, 1, 2>>, <<459, 475, 2, 1>>, <<478, 494, 2, 1>>, <<497, 497, 1, 2>>,
      <<498, 500, 2, 1>>, <<502, 502, 1, -97>>, <<503, 503, 1, -56>>,
      <<504, 542, 2, 1>>, <<544, 544, 1, -130>>, <<546, 562, 2, 1>>,
      <<570, 570, 1, 10795>>, <<571, 571, 1, 1>>, <<573, 573, 1, -163>>,
      <<574, 574, 1, 10792>>, <<577, 577, 1, 1>>, <<579, 579, 1, -195>>,
      <<580, 580, 1, 69>>, <<581, 581, 1, 71>>, <<582, 590, 2, 1>>, <<880, 882, 2, 1>>,
      <<886, 886, 1, 1>>, <<895, 895, 1, 116>>, <<902, 902, 1, 38>>,
      <<904, 906, 1, 37>>, <<908, 908, 1, 64>>, <<910, 911, 1, 63>>,
      <<913, 929, 1, 32>>, <<931, 939, 1, 32>>, <<975, 975, 1, 8>>,
      <<984, 1006, 2, 1>>, <<1012, 1012, 1, -60>>, <<1015, 1015, 1, 1>>,
      <<1017, 1017, 1, -7>>, <<1018, 1018, 1, 1>>, <<1021, 1023, 1, -130>>,
      <<1024, 1039, 1, 80>>, <<1040, 1071, 1, 32>>, <<1120, 1152, 2, 1>>,
      <<1162, 1214, 2, 1>>, <<1216, 1216, 1, 15>>, <<1217, 1229, 2, 1>>,
      <<1232, 1326, 2, 1>>, <<1329, 1366, 1, 48>>, <<4256, 4293, 1, 7264>>,
      <<4295, 4295, 1, 7264>>, <<4301, 4301, 1, 7264>>, <<5024, 5103, 1, 38864>>,
      <<5104, 5109, 1, 8>>, <<7312, 7354, 1, -3008>>, <<7357, 7359, 1, -3008>>,
      <<7680, 7828, 2, 1>>, <<7838, 7838, 1, -7615>>, <<7840, 7934, 2, 1>>,
      <<7944, 7951, 1, -8>>, <<7960, 7965, 1, -8>>, <<7976, 7983, 1, -8>>,
      <<7992, 7999, 1, -8>>, <<8008, 8013, 1, -8>>, <<8025, 8031, 2, -8>>,
      <<8040, 8047, 1, -8>>, <<8072, 8079, 1, -8>>, <<8088, 8095, 1, -8>>,
      <<8104, 8111, 1, -8>>, <<8120, 8121, 1, -8>>, <<8122, 8123, 1, -74>>,
      <<8124, 8124, 1, -9>>, <<8136, 8139, 1, -86>>, <<8140, 8140, 1, -9>>,
      <<8152, 8153, 1, -8>>, <<8154, 8155, 1, -100>>, <<8168, 8169, 1, -8>>,
      <<8170, 8171, 1, -112>>, <<8172, 8172, 1, -7>>, <<8184, 8185, 1, -128>>,
      <<8186, 8187, 1, -126>>, <<8188, 8188, 1, -9>>, <<8486, 8486, 1, -7517>>,
      <<8490, 8490, 1, -8383>>, <<8491, 8491, 1, -8262>>, <<8498, 8498, 1, 28>>,
      <<8544, 8559, 1, 16>>, <<8579, 8579, 1, 1>>, <<9398, 9423, 1, 26>>,
      <<11264, 11311, 1, 48>>, <<11360, 11360, 1, 1>>, <<11362, 11362, 1, -10743>>,
      <<11363, 11363, 1, -3814>>, <<11364, 11364, 1, -10727>>, <<11367, 11371, 2, 1>>,
      <<11373, 11373, 1, -10780>>, <<11374, 11374, 1, -10749>>,
      <<11375, 11375, 1, -10783>>, <<11376, 11376, 1, -10782>>, <<11378, 11378, 1, 1>>,
      <<11381, 11381, 1, 1>>, <<11390, 11391, 1, -10815>>, <<11392, 11490, 2, 1>>,
      <<11499, 11501, 2, 1>>, <<11506, 11506, 1, 1>>, <<42560, 42604, 2, 1>>,
      <<42624, 42650, 2, 1>>, <<42786, 42798, 2, 1>>, <<42802, 42862, 2, 1>>,
      <<42873, 42875, 2, 1>>, <<42877, 42877, 1, -35332>>, <<42878, 42886, 2, 1>>,
      <<42891, 42891, 1, 1>>, <<42893, 42893, 1, -42280>>, <<42896, 42898, 2, 1>>,
      <<42902, 42920, 2, 1>>, <<42922, 42922, 1, -42308>>, <<42923, 42923, 1, -42319>>,
      <<42924, 42924, 1, -42315>>, <<42925, 42925, 1, -42305>>,
      <<42926, 42926, 1, -42308>>, <<42928, 42928, 1, -42258>>,
      <<42929, 42929, 1, -42282>>, <<42930, 42930, 1, -42261>>,
      <<42931, 42931, 1, 928>>, <<42932, 42946, 2, 1>>, <<42948, 42948, 1, -48>>,
      <<42949, 42949, 1, -42307>>, <<42950, 42950, 1, -35384>>, <<42951, 42953, 2, 1>>,
      <<42960, 42960, 1, 1>>, <<42966, 42968, 2, 1>>, <<42997, 42997, 1, 1>>,
      <<65313, 65338, 1, 32>>, <<66560, 66599, 1, 40>>, <<66736, 66771, 1, 40>>,
      <<66928, 66938, 1, 39>>, <<66940, 66954, 1, 39>>, <<66956, 66962, 1, 39>>,
      <<66964, 66965, 1, 39>>, <<68736, 68786, 1, 64>>, <<71840, 71871, 1, 32>>,
      <<93760, 93791, 1, 32>>, <<125184, 125217, 1, 34>>>>

\* str.lower() on one code point: A-Z, the table, and U+0130, which gives two
LowerChar(c) ==
    IF c < 192 THEN (IF 65 <= c /\ c <= 90 THEN <<c + 32>> ELSE <<c>>)
    ELSE IF c = 304 THEN <<105, 775>>
    ELSE LET Hit(k) == /\ LowerRanges[k][1] <= c
                       /\ c <= LowerRanges[k][2]
                       /\ (c - LowerRanges[k][1]) % LowerRanges[k][3] = 0
         IN  IF \E k \in 1..Len(LowerRanges) : Hit(k)
             THEN <<c + LowerRanges[CHOOSE k \in 1..Len(LowerRanges) : Hit(k)][4]>>
             ELSE <<c>>

\* str.lower()
RECURSIVE Lower(_)
Lower(s) == IF s = <<>> THEN <<>> ELSE LowerChar(Head(s)) \o Lower(Tail(s))

\* str.strip(): drop the leading and the trailing whitespace
RECURSIVE LStrip(_)
LStrip(s) ==
    IF s # <<>> /\ Head(s) \in Whitespace THEN LStrip(Tail(s)) ELSE s

RECURSIVE RStrip(_)
RStrip(s) ==
    IF s # <<>> /\ s[Len(s)] \in Whitespace
    THEN RStrip(SubSeq(s, 1, Len(s) - 1))
    ELSE s

Strip(s) == RStrip(LStrip(s))

\* (x or "") for a string the code lower-cases
OrEmpty(x) == IF x = NoneStr THEN <<>> ELSE x

\* (x or "") for any other string
OrEmptyVal(x) == IF x = NoneVal THEN "" ELSE x

\* ---------------------------------------------------------------- natural numbers

\* A natural number below 2^75 is the tuple of its five digits in base 2^15,
\* least significant first, so that no step leaves the machine integers. The
\* arithmetic is written as functions: a function takes its arguments by value.
Base == 32768
Zero5 == <<0, 0, 0, 0, 0>>
One5 == <<1, 0, 0, 0, 0>>
Word == Seq(Int)

\* the digit of weight Base^(at-1), 0 outside the five
Digit(a, at) == IF 1 <= at /\ at <= 5 THEN a[at] ELSE 0

\* a * s for a digit s; the product is below 2^75
Mul5[a \in Word, s \in Int] ==
    LET p1 == a[1] * s
        p2 == a[2] * s + (p1 \div Base)
        p3 == a[3] * s + (p2 \div Base)
        p4 == a[4] * s + (p3 \div Base)
        p5 == a[5] * s + (p4 \div Base)
    IN  <<p1 % Base, p2 % Base, p3 % Base, p4 % Base, p5 % Base>>

\* a + b; the sum is below 2^75
Add5[a \in Word, b \in Word] ==
    LET x1 == a[1] + b[1]
        x2 == a[2] + b[2] + (x1 \div Base)
        x3 == a[3] + b[3] + (x2 \div Base)
        x4 == a[4] + b[4] + (x3 \div Base)
        x5 == a[5] + b[5] + (x4 \div Base)
    IN  <<x1 % Base, x2 % Base, x3 % Base, x4 % Base, x5 % Base>>

\* a - b, for a >= b
Sub5[a \in Word, b \in Word] ==
    LET x1 == a[1] - b[1]
        x2 == a[2] - b[2] - (IF x1 < 0 THEN 1 ELSE 0)
        x3 == a[3] - b[3] - (IF x2 < 0 THEN 1 ELSE 0)
        x4 == a[4] - b[4] - (IF x3 < 0 THEN 1 ELSE 0)
        x5 == a[5] - b[5] - (IF x4 < 0 THEN 1 ELSE 0)
    IN  <<x1 % Base, x2 % Base, x3 % Base, x4 % Base, x5 % Base>>

\* a < b
Lt5[a \in Word, b \in Word] ==
    \E at \in 1..5 : a[at] < b[at] /\ \A up \in (at + 1)..5 : a[up] = b[up]

\* a * Base, for a below 2^60
Shl15[a \in Word] == <<0, a[1], a[2], a[3], a[4]>>

\* a \div 2^bits
Shr[a \in Word, bits \in Int] ==
    LET whole == bits \div 15
        part == bits % 15
        D(at) == (Digit(a, at + whole) \div 2^part)
                 + (Digit(a, at + whole + 1) % 2^part) * 2^(15 - part)
    IN  <<D(1), D(2), D(3), D(4), D(5)>>

\* a * 2^bits; the product is below 2^75
Shl[a \in Word, bits \in Int] ==
    LET whole == bits \div 15
        part == bits % 15
        D(at) == (Digit(a, at - whole) % 2^(15 - part)) * 2^part
                 + (Digit(a, at - whole - 1) \div 2^(15 - part))
    IN  <<D(1), D(2), D(3), D(4), D(5)>>

\* a % 2^bits # 0: Shr[a, bits] drops a one
Dropped[a \in Word, bits \in Int] ==
    \/ \E at \in 1..5 : at <= bits \div 15 /\ a[at] # 0
    \/ Digit(a, (bits \div 15) + 1) % 2^(bits % 15) # 0

\* the number of bits of a digit
BitLenSmall[v \in Int] ==
    CHOOSE len \in 0..15 : 2^len > v /\ (len = 0 \/ 2^(len - 1) <= v)

\* the number of bits of a
BitLen5[a \in Word] ==
    IF a = Zero5 THEN 0
    ELSE LET top == CHOOSE at \in 1..5 :
                        a[at] # 0 /\ \A up \in (at + 1)..5 : a[up] = 0
         IN  15 * (top - 1) + BitLenSmall[a[top]]

\* q or q + 1, for the quotient q of s by 2^drop, the bit below it and whether
\* anything lies below that bit: to the nearest, a tie going to the even one
RoundUp[q \in Word, half \in BOOLEAN, below \in BOOLEAN] ==
    IF half /\ (below \/ q[1] % 2 = 1) THEN Add5[q, One5] ELSE q

\* the integer nearest to (s + eps) / 2^drop, a tie going to the even one;
\* drop >= 1, and sticky says that 0 < eps < 1 (else eps = 0)
RoundShr[s \in Word, drop \in Int, sticky \in BOOLEAN] ==
    RoundUp[Shr[s, drop], Shr[s, drop - 1][1] % 2 = 1,
            Dropped[s, drop - 1] \/ sticky]

\* ---------------------------------------------------------------- floats

\* The double (-1)^neg * m * 2^e; m is 0, or has 60 bits of which the last 7
\* are 0 (the 53 significant bits of a double, aligned to the top of 4 digits).
Float(neg, m, e) == [neg |-> neg, m |-> m, e |-> e]

Floats == [neg : BOOLEAN, m : Word, e : Int]

FZero(neg) == Float(neg, Zero5, 0)

\* (-1)^neg * r * 2^e for r of at most 53 bits, which is a double
FPack[neg \in BOOLEAN, r \in Word, len \in Int, e \in Int] ==
    IF len = 0 THEN FZero(neg)
    ELSE Float(neg, Shl[r, 60 - len], e - (60 - len))

\* the double nearest to (-1)^neg * (s + eps) * 2^e for s of len bits, a tie
\* going to the even one, as the machine rounds the result of every operation
FRoundLen[neg \in BOOLEAN, s \in Word, len \in Int, e \in Int, sticky \in BOOLEAN] ==
    IF len <= 53 THEN FPack[neg, s, len, e]
    ELSE FPack[neg, RoundShr[s, len - 53, sticky],
               BitLen5[RoundShr[s, len - 53, sticky]], e + (len - 53)]

FRound[neg \in BOOLEAN, s \in Word, e \in Int, sticky \in BOOLEAN] ==
    FRoundLen[neg, s, BitLen5[s], e, sticky]

\* float(n) for an integer below 2^31 in size
FromInt[n \in Int] ==
    LET a == IF n < 0 THEN 0 - n ELSE n
    IN  FRound[n < 0, <<a % Base, (a \div Base) % Base, a \div (Base * Base), 0, 0>>,
               0, FALSE]

\* -x
FNeg[x \in Floats] == Float(~x.neg, x.m, x.e)

\* est, or the next below, or the one below that: the largest whose product by
\* d does not exceed t
QuoFit[t \in Word, d \in Word, est \in Int] ==
    IF ~Lt5[t, Mul5[d, est]] THEN est
    ELSE IF ~Lt5[t, Mul5[d, est - 1]] THEN est - 1
    ELSE est - 2

\* one digit of a quotient: t \div d for t < d * Base, d of 60 bits; the
\* estimate from the leading digits is at most 2 too large
QuoDigit[t \in Word, d \in Word] ==
    LET lead == (t[5] * Base + t[4]) \div d[4]
    IN  QuoFit[t, d, IF lead > Base - 1 THEN Base - 1 ELSE lead]

\* the remainder r of the digits qs found so far, Base * r and the next digit
\* q: on to the next, until there are five
DivLoop[t \in Word, d \in Word, qs \in Seq(Int), q \in Int] ==
    IF Len(qs) = 4 THEN <<<<q>> \o qs, Sub5[t, Mul5[d, q]]>>
    ELSE DivLoop[Shl15[Sub5[t, Mul5[d, q]]], d, <<q>> \o qs,
                 QuoDigit[Shl15[Sub5[t, Mul5[d, q]]], d]]

\* x / y: long division to 60 or 61 bits and whether a remainder is left;
\* Python raises on a zero divisor
FDiv[x \in Floats, y \in Floats] ==
    IF y.m = Zero5 THEN "ZeroDivisionError"
    ELSE IF x.m = Zero5 THEN FZero(x.neg # y.neg)
    ELSE LET qr == DivLoop[x.m, y.m, <<>>, IF Lt5[x.m, y.m] THEN 0 ELSE 1]
         IN  FRound[x.neg # y.neg, qr[1], x.e - y.e - 60, qr[2] # Zero5]

\* |x| < |y|
MagLt[x \in Floats, y \in Floats] ==
    IF y.m = Zero5 THEN FALSE
    ELSE IF x.m = Zero5 THEN TRUE
    ELSE IF x.e # y.e THEN x.e < y.e
    ELSE Lt5[x.m, y.m]

\* |hi| + |lo| with the sign neg, for |hi| >= |lo| > 0: the smaller is aligned
\* to the larger, what falls off its end still deciding a tie
FAddMag[hi \in Floats, lo \in Floats, neg \in BOOLEAN] ==
    LET gap == hi.e - lo.e
    IN  IF gap > 74 THEN Float(neg, hi.m, hi.e)
        ELSE FRound[neg, Add5[hi.m, Shr[lo.m, gap]], hi.e, Dropped[lo.m, gap]]

\* |hi| - |lo| with the sign neg, for |hi| > |lo| > 0, on 14 more bits
FSubMag[hi \in Floats, lo \in Floats, neg \in BOOLEAN] ==
    LET gap == hi.e - lo.e
    IN  IF gap > 74 THEN Float(neg, hi.m, hi.e)
        ELSE IF gap <= 14
        THEN FRound[neg, Sub5[Shl[hi.m, 14], Shl[lo.m, 14 - gap]], hi.e - 14, FALSE]
        ELSE IF Dropped[lo.m, gap - 14]
        THEN FRound[neg, Sub5[Sub5[Shl[hi.m, 14], Shr[lo.m, gap - 14]], One5],
                    hi.e - 14, TRUE]
        ELSE FRound[neg, Sub5[Shl[hi.m, 14], Shr[lo.m, gap - 14]], hi.e - 14, FALSE]

\* x + y
FAdd[x \in Floats, y \in Floats] ==
    IF y.m = Zero5 THEN (IF x.m = Zero5 THEN FZero(x.neg /\ y.neg) ELSE x)
    ELSE IF x.m = Zero5 THEN y
    ELSE IF x.neg = y.neg
    THEN (IF MagLt[x, y] THEN FAddMag[y, x, x.neg] ELSE FAddMag[x, y, x.neg])
    ELSE IF x.m = y.m /\ x.e = y.e THEN FZero(FALSE)
    ELSE IF MagLt[x, y] THEN FSubMag[y, x, y.neg]
    ELSE FSubMag[x, y, x.neg]

\* x < y
FLt[x \in Floats, y \in Floats] ==
    IF x.m = Zero5 /\ y.m = Zero5 THEN FALSE
    ELSE IF x.m = Zero5 THEN ~y.neg
    ELSE IF y.m = Zero5 THEN x.neg
    ELSE IF x.neg # y.neg THEN x.neg
    ELSE IF x.neg THEN MagLt[y, x]
    ELSE MagLt[x, y]

\* x <= y
FLeq[x \in Floats, y \in Floats] == ~FLt[y, x]

\* the integer of up to 30 bits that is q
Small[q \in Word] == q[1] + Base * q[2]

\* round(x, 6) for |x| < 1000, in millionths: the multiple of 10^-6 nearest to
\* the double itself, a tie going to the even one (10^6 = 15625 * 2^6)
Round6[x \in Floats] ==
    IF x.m = Zero5 THEN 0
    ELSE IF x.neg THEN 0 - Small[RoundShr[Mul5[x.m, 15625], 0 - (x.e + 6), FALSE]]
    ELSE Small[RoundShr[Mul5[x.m, 15625], 0 - (x.e + 6), FALSE]]
\* ---------------------------------------------------------------- program constants

\* PLAYER_MARKETS
PLAYER_MARKETS == <<"player_points_rebounds_assists", "player_points",
                    "player_assists", "player_threes">>

\* the row's keys, in insertion order (the CSV header)
RowKeys == <<"event_id", "home_team", "away_team", "commence_time", "bookmaker",
             "bookmaker_title", "bookmaker_last_update", "market_last_update",
             "market", "outcome", "description", "point", "price_american",
             "implied_prob", "no_vig_prob">>

\* ---------------------------------------------------------------- _american_to_prob

NoPrice == [kind |-> "none", val |-> 0]
Num(v) == [kind |-> "num", val |-> v]
Text == [kind |-> "text", val |-> 0]

\* a plausible slip: the favourite's branch forgotten
american_to_prob_onebranch(american) ==
    IF american.kind \in {"none", "text"} THEN <<>>
    ELSE <<FDiv[FromInt[100], FAdd[FromInt[american.val], FromInt[100]]]>>

\* _american_to_prob: <<>> is None, <<p>> the probability, a float
_american_to_prob(american) ==
    IF american.kind = "none" THEN <<>>
    ELSE IF american.kind = "text" THEN <<>>
    ELSE IF american.val > 0
    THEN <<FDiv[FromInt[100], FAdd[FromInt[american.val], FromInt[100]]]>>
    ELSE <<FDiv[FNeg[FromInt[american.val]],
                FAdd[FNeg[FromInt[american.val]], FromInt[100]]]>>

\* (_american_to_prob(price) or 0.0): None, 0.0 and -0.0 are falsy
OrZero[p \in Seq(Floats)] ==
    IF p = <<>> \/ p[1].m = Zero5 THEN FZero(FALSE) ELSE p[1]

\* ---------------------------------------------------------------- flatten_events_to_rows

\* implieds, lines 124-126
RECURSIVE Implieds(_)
Implieds(outcomes) ==
    IF outcomes = <<>> THEN <<>>
    ELSE <<OrZero[_american_to_prob(Head(outcomes).price)]>>
         \o Implieds(Tail(outcomes))

\* sum(): the floats added one after another, from 0
SumFrom[ps \in Seq(Floats), at \in Int, acc \in Floats] ==
    IF at > Len(ps) THEN acc ELSE SumFrom[ps, at + 1, FAdd[acc, ps[at]]]

Sum[ps \in Seq(Floats)] == SumFrom[ps, 1, FZero(FALSE)]

\* [p / total for p in implieds]
Shares[ps \in Seq(Floats), total \in Floats] ==
    IF ps = <<>> THEN <<>>
    ELSE <<FDiv[Head(ps), total]>> \o Shares[Tail(ps), total]

Max(a, b) == IF a >= b THEN a ELSE b

\* [1.0 / n] * n
Even[even \in Floats, n \in Int] == [k \in 1..n |-> even]

\* lines 129-133, total being sum(implieds) or 0.0
Split[implieds \in Seq(Floats), total \in Floats] ==
    IF FLt[FZero(FALSE), total] THEN Shares[implieds, total]
    ELSE Even[FDiv[FromInt[1], FromInt[Max(1, Len(implieds))]],
              Max(1, Len(implieds))]

\* no_vig_probs, lines 128-133: one split over all the outcomes of the market
NoVigProbs[implieds \in Seq(Floats)] == Split[implieds, Sum[implieds]]

\* round(p, 6) if p is not None else None, p being lst[idx] if idx < len(lst)
Rounded[lst \in Seq(Floats), idx \in Int] ==
    IF idx <= Len(lst) THEN <<Round6[lst[idx]]>> ELSE <<>>

\* the row of lines 140-160, from the two rounded lists
MarketRow(event, bookmaker, market, o, implied_prob, no_vig_prob) ==
    [event_id |-> event.id,
     home_team |-> event.home_team,
     away_team |-> event.away_team,
     commence_time |-> event.commence_time,
     bookmaker |-> bookmaker.key,
     bookmaker_title |-> bookmaker.title,
     bookmaker_last_update |-> bookmaker.last_update,
     market_last_update |-> market.last_update,
     market |-> market.key,
     outcome |-> o.name,
     description |-> o.description,
     point |-> o.point,
     price_american |-> o.price,
     implied_prob |-> implied_prob,
     no_vig_prob |-> no_vig_prob]

\* implied_prob and no_vig_prob of every outcome, from implieds
Probs[implieds \in Seq(Floats), no_vig_probs \in Seq(Floats), n \in Int] ==
    [idx \in 1..n |-> <<Rounded[implieds, idx], Rounded[no_vig_probs, idx]>>]

ProbsOf[implieds \in Seq(Floats), n \in Int] ==
    Probs[implieds, NoVigProbs[implieds], n]

\* the rows of one market, lines 135-160; the lists are computed once
MarketRows(event, bookmaker, market) ==
    CHOOSE rows \in
        {[idx \in 1..Len(market.outcomes) |->
            MarketRow(event, bookmaker, market, market.outcomes[idx],
                      probs[idx][1], probs[idx][2])] :
         probs \in {ProbsOf[Implieds(market.outcomes), Len(market.outcomes)]}} : TRUE

\* the loop over a bookmaker's markets, line 119
RECURSIVE BookmakerRows(_, _, _)
BookmakerRows(event, bookmaker, markets) ==
    IF markets = <<>> THEN <<>>
    ELSE MarketRows(event, bookmaker, Head(markets))
         \o BookmakerRows(event, bookmaker, Tail(markets))

\* the loop over an event's bookmakers, line 114
RECURSIVE EventRows(_, _)
EventRows(event, bookmakers) ==
    IF bookmakers = <<>> THEN <<>>
    ELSE BookmakerRows(event, Head(bookmakers), Head(bookmakers).markets)
         \o EventRows(event, Tail(bookmakers))

\* the loop over the events, lines 105-107: a falsy event ({} or None) is skipped
RECURSIVE EventsRows(_)
EventsRows(evs) ==
    IF evs = <<>> THEN <<>>
    ELSE (IF Head(evs).shape = "empty" THEN <<>>
          ELSE EventRows(Head(evs), Head(evs).bookmakers))
         \o EventsRows(Tail(evs))

\* flatten_events_to_rows. An event that is a JSON array has no .get: line 109
\* raises AttributeError and the rows built so far, a local, are lost.
flatten_events_to_rows(evs) ==
    LET raised == \E k \in 1..Len(evs) : evs[k].shape = "array"
    IN  [raised |-> raised, rows |-> IF raised THEN <<>> ELSE EventsRows(evs)]


\* ---------------------------------------------------------------- filter_fanduel_rows

\* a plausible slip: the filter keeps every row
filter_keep_all(rows) == [raised |-> FALSE, rows |-> rows]

\* a plausible slip: the bookmaker compared without lower-casing
filter_case_sensitive(rows) ==
    LET Keep(r) == /\ OrEmpty(r.bookmaker) = s_fanduel
                   /\ \E k \in 1..Len(PLAYER_MARKETS) :
                          PLAYER_MARKETS[k] = OrEmptyVal(r.market)
                   /\ Lower(Strip(OrEmpty(r.outcome))) \in {s_over, s_under}
    IN  [raised |-> \E k \in 1..Len(rows) :
                       rows[k].bookmaker = NotStr \/ rows[k].outcome = NotStr,
         rows |-> SelectSeq(rows, Keep)]

\* lines 170 and 172 on one row: .lower() or .strip() of a truthy value that is
\* no string raises AttributeError
Raises(r) == r.bookmaker = NotStr \/ r.outcome = NotStr

\* the three tests of lines 170-179 on one row
Kept(r) ==
    LET bk == Lower(OrEmpty(r.bookmaker))
        market == OrEmptyVal(r.market)
        outcome == Lower(Strip(OrEmpty(r.outcome)))
    IN  /\ bk = s_fanduel
        /\ \E k \in 1..Len(PLAYER_MARKETS) : PLAYER_MARKETS[k] = market
        /\ outcome \in {s_over, s_under}

\* the loop of lines 169-181: the kept rows appended in order
RECURSIVE KeptRows(_)
KeptRows(rows) ==
    IF rows = <<>> THEN <<>>
    ELSE (IF Kept(Head(rows)) THEN <<Head(rows)>> ELSE <<>>)
         \o KeptRows(Tail(rows))

\* filter_fanduel_rows: the kept rows, or, where a row makes line 170 or 172
\* raise, the exception, the rows kept so far, a local, being lost
filter_fanduel_rows(rows) ==
    IF \E k \in 1..Len(rows) : Raises(rows[k])
    THEN [raised |-> TRUE, rows |-> <<>>]
    ELSE [raised |-> FALSE, rows |-> KeptRows(rows)]

\* ---------------------------------------------------------------- write_json, write_csv

NoFile == [exists |-> FALSE, doc |-> FALSE, header |-> <<>>, rows |-> <<>>]

\* a plausible slip: the file opened for appending, what it holds kept
open_a(old) == [old EXCEPT !.exists = TRUE, !.doc = FALSE]

\* open(path, "w"), lines 195, 201 and 204: the file is created, or cut to 0 bytes
open_w(old) == [exists |-> TRUE, doc |-> FALSE, header |-> <<>>, rows |-> <<>>]

\* json.dump and the close of the with block, line 196: the document is complete
json_dump(file, data) == [file EXCEPT !.doc = TRUE, !.rows = @ \o data]

\* writer.writeheader(), line 206
writeheader(file, keys) == [file EXCEPT !.header = keys]

\* writer.writerows(rows) and the close of the with block, line 207
writerows(file, rows) == [file EXCEPT !.rows = @ \o rows]

\* the beginnings of a sequence of rows
Prefixes(rows) == {SubSeq(rows, 1, k) : k \in 0..Len(rows)}

\* What the file can hold once the process has died at line `line` of
\* write_json or write_csv, `file` being what was written to it before that
\* line: inside json.dump, the beginning of the document; inside writerows,
\* the header and the first rows, or nothing where what was written was still
\* in the buffer. At any other line the file is as it was.
OnDisk(file, line, data) ==
    IF line = "dump" THEN {[file EXCEPT !.rows = @ \o p] : p \in Prefixes(data)}
    ELSE IF line = "rows"
    THEN {open_w(file)} \cup {[file EXCEPT !.rows = @ \o p] : p \in Prefixes(data)}
    ELSE {file}

\* ---------------------------------------------------------------- the upstream API

EventIds == <<"e1", "e2", "e3", "e4", "e5">>

Outcome(name, description, point, price) ==
    [name |-> name, description |-> description, point |-> point, price |-> price]

Market(key, outcomes) == [key |-> key, last_update |-> "mu", outcomes |-> outcomes]

Bookmaker(key, title, markets) ==
    [key |-> key, title |-> title, last_update |-> "bu", markets |-> markets]

Event(shape, id, bookmakers) ==
    [shape |-> shape, id |-> id, home_team |-> "home", away_team |-> "away",
     commence_time |-> "ct", bookmakers |-> bookmakers]

\* an event's odds: FanDuel with an Under written " under" and a third outcome in
\* one market, and another bookmaker
GoodEvent(eid) ==
    Event("object", eid,
          <<Bookmaker(s_fanduel, "FanDuel",
                <<Market("player_points",
                    <<Outcome(s_sp_under, "A", <<5>>, Num(130)),
                      Outcome(s_Yes, "A", <<>>, NoPrice)>>)>>),
            Bookmaker(s_draftkings, "DraftKings",
                <<Market("player_points",
                    <<Outcome(s_Over, "A", <<5>>, Num(-110))>>)>>)>>)

\* an event's odds in which an outcome's name is a number
OddEvent(eid) ==
    Event("object", eid,
          <<Bookmaker(s_fanduel, "FanDuel",
                <<Market("player_points",
                    <<Outcome(NotStr, "A", <<5>>, Num(-150))>>)>>)>>)

\* a body that is {} (falsy), and one that is a JSON array
EmptyEvent == Event("empty", NoneVal, <<>>)
ArrayEvent == Event("array", NoneVal, <<>>)

\* what fetch_event_player_props can do for event eid: return a body (the event's
\* odds, well formed or not, or a JSON array), or raise one of the exceptions main
\* catches
Replies(eid) ==
    {[status |-> "ok", body |-> b] : b \in {GoodEvent(eid), OddEvent(eid), ArrayEvent}}
    \cup {[status |-> st, body |-> EmptyEvent] :
            st \in {"HTTPError", "RequestException", "Exception"}}

\* what the log of replies keeps of one: the body, or that the call raised
Logged(reply) ==
    IF reply.status = "ok" THEN reply ELSE [status |-> "raised", body |-> EmptyEvent]

\* What fetch_nba_events can return, line 84 handing on whatever JSON the API
\* sent: a list of up to n entries, each an object with an id ("id"), an object
\* without one ("noid"), or no object at all, as a string is ("other")
EventLists(n) ==
    UNION {[1..len -> {"id", "noid", "other"}] : len \in 0..n}

Listing(shape) ==
    [k \in 1..Len(shape) |->
        [object |-> shape[k] # "other",
         id |-> IF shape[k] = "id" THEN EventIds[k] ELSE NoneVal]]

\* ---------------------------------------------------------------- main

\* The four files main writes. The runs modelled fall on one UTC date, so each
\* dated name (line 223, today) denotes one file.
NoFiles ==
    [fanduel_json |-> NoFile,
     fanduel_csv |-> NoFile,
     cleaned_csv |-> NoFile,
     flat_json |-> NoFile]

\* main's write calls, lines 254, 255, 261 and 266
WriteCalls ==
    <<[fn |-> "write_json", path |-> "fanduel_json", data |-> "fanduel_rows"],
      [fn |-> "write_csv", path |-> "fanduel_csv", data |-> "fanduel_rows"],
      [fn |-> "write_csv", path |-> "cleaned_csv", data |-> "fanduel_rows"],
      [fn |-> "write_json", path |-> "flat_json", data |-> "all_rows"]>>

\* the lines of write_json and write_csv
WritePcs == {"open", "dump", "header", "rows"}

\* the lines at which the process is alive
RunningPcs == {"start", "loop", "return"} \cup WritePcs

\* the argument of the write call under way
Data == IF WriteCalls[site].data = "all_rows" THEN all_rows ELSE fanduel_rows

\* the file of the write call under way
Path == WriteCalls[site].path

\* where the process is after the write call under way has returned
AfterCall ==
    IF site < Len(WriteCalls) THEN [pc |-> "open", site |-> site + 1]
    ELSE [pc |-> "return", site |-> 0]

\* a process that has not fetched anything yet
FreshLocals ==
    /\ site = 0
    /\ events = <<>>
    /\ i = 0
    /\ raw_out = <<>>
    /\ all_rows = <<>>
    /\ fanduel_rows = <<>>
    /\ requests = <<>>
    /\ replies = <<>>
    /\ rc = -1

\* the try block of one event, lines 232-247
EventStep(raw, rows, reply) ==
    IF reply.status = "ok"
    THEN LET flat == flatten_events_to_rows(<<reply.body>>)
         IN  [raw_out |-> Append(raw, reply.body),
              all_rows |-> IF flat.raised THEN rows ELSE rows \o flat.rows]
    ELSE [raw_out |-> raw, all_rows |-> rows]

Init ==
    /\ pc = "start"
    /\ FreshLocals
    /\ files = NoFiles
    /\ arg = <<>>
    /\ ret = <<>>

\* the script is run again: a new process
NewRun ==
    /\ pc \in {"done", "crashed", "killed"}
    /\ pc' = "start"
    /\ site' = 0
    /\ events' = <<>>
    /\ i' = 0
    /\ raw_out' = <<>>
    /\ all_rows' = <<>>
    /\ fanduel_rows' = <<>>
    /\ requests' = <<>>
    /\ replies' = <<>>
    /\ rc' = -1
    /\ UNCHANGED <<files, arg, ret>>

\* lines 214-221: the events listing cannot be fetched
FetchEventsFail ==
    /\ pc = "start"
    /\ pc' = "done"
    /\ rc' = 1
    /\ UNCHANGED <<site, events, i, raw_out, all_rows, fanduel_rows,
                   requests, replies, files, arg, ret>>

\* lines 215, 223-225, for a listing of up to n entries
FetchEventsOk(n) ==
    /\ pc = "start"
    /\ \E shape \in EventLists(n) : events' = Listing(shape)
    /\ raw_out' = <<>>
    /\ all_rows' = <<>>
    /\ i' = 1
    /\ pc' = "loop"
    /\ UNCHANGED <<site, fanduel_rows, requests, replies, rc, files, arg, ret>>

\* line 228 on an entry that is no object: ev.get raises AttributeError outside
\* the try block, and the process ends with a traceback and exit status 1
LoopCrash ==
    /\ pc = "loop"
    /\ i <= Len(events)
    /\ ~events[i].object
    /\ pc' = "crashed"
    /\ rc' = 1
    /\ UNCHANGED <<site, events, i, raw_out, all_rows, fanduel_rows,
                   requests, replies, files, arg, ret>>

\* lines 228-230: an event without an id is passed over
LoopSkip ==
    /\ pc = "loop"
    /\ i <= Len(events)
    /\ events[i].object
    /\ OrEmptyVal(events[i].id) = ""
    /\ i' = i + 1
    /\ UNCHANGED <<pc, site, events, raw_out, all_rows, fanduel_rows,
                   requests, replies, rc, files, arg, ret>>

\* lines 232-247: one event is fetched and flattened, or its failure logged
LoopFetch ==
    /\ pc = "loop"
    /\ i <= Len(events)
    /\ events[i].object
    /\ OrEmptyVal(events[i].id) # ""
    /\ \E reply \in Replies(events[i].id) :
          LET step == EventStep(raw_out, all_rows, reply)
          IN  /\ raw_out' = step.raw_out
              /\ all_rows' = step.all_rows
              /\ replies' = Append(replies, Logged(reply))
    /\ requests' = Append(requests, events[i].id)
    /\ i' = i + 1
    /\ UNCHANGED <<pc, site, events, fanduel_rows, rc, files, arg, ret>>

\* line 249 where filter_fanduel_rows raises: the call is outside any try block,
\* and the process ends with a traceback and exit status 1
FilterCrash ==
    /\ pc = "loop"
    /\ i > Len(events)
    /\ filter_fanduel_rows(all_rows).raised
    /\ pc' = "crashed"
    /\ rc' = 1
    /\ UNCHANGED <<site, events, i, raw_out, all_rows, fanduel_rows,
                   requests, replies, files, arg, ret>>

\* line 249, and the call of line 254
LoopEnd ==
    /\ pc = "loop"
    /\ i > Len(events)
    /\ ~filter_fanduel_rows(all_rows).raised
    /\ fanduel_rows' = filter_fanduel_rows(all_rows).rows
    /\ pc' = "open"
    /\ site' = 1
    /\ UNCHANGED <<events, i, raw_out, all_rows, requests, replies, rc,
                   files, arg, ret>>

\* write_json, line 195
OpenJson ==
    /\ pc = "open"
    /\ WriteCalls[site].fn = "write_json"
    /\ files' = [files EXCEPT ![Path] = open_w(@)]
    /\ pc' = "dump"
    /\ UNCHANGED <<site, events, i, raw_out, all_rows, fanduel_rows,
                   requests, replies, rc, arg, ret>>

\* write_json, line 196, and the return to main
Dump ==
    /\ pc = "dump"
    /\ files' = [files EXCEPT ![Path] = json_dump(@, Data)]
    /\ pc' = AfterCall.pc
    /\ site' = AfterCall.site
    /\ UNCHANGED <<events, i, raw_out, all_rows, fanduel_rows,
                   requests, replies, rc, arg, ret>>

\* write_csv without rows, lines 200-202: an empty file, and the return to main
OpenCsvEmpty ==
    /\ pc = "open"
    /\ WriteCalls[site].fn = "write_csv"
    /\ Data = <<>>
    /\ files' = [files EXCEPT ![Path] = open_w(@)]
    /\ pc' = AfterCall.pc
    /\ site' = AfterCall.site
    /\ UNCHANGED <<events, i, raw_out, all_rows, fanduel_rows,
                   requests, replies, rc, arg, ret>>

\* write_csv with rows, lines 203-205
OpenCsv ==
    /\ pc = "open"
    /\ WriteCalls[site].fn = "write_csv"
    /\ Data # <<>>
    /\ files' = [files EXCEPT ![Path] = open_w(@)]
    /\ pc' = "header"
    /\ UNCHANGED <<site, events, i, raw_out, all_rows, fanduel_rows,
                   requests, replies, rc, arg, ret>>

\* write_csv, line 206: the keys of the first row, which are those of every row
WriteHeader ==
    /\ pc = "header"
    /\ files' = [files EXCEPT ![Path] = writeheader(@, RowKeys)]
    /\ pc' = "rows"
    /\ UNCHANGED <<site, events, i, raw_out, all_rows, fanduel_rows,
                   requests, replies, rc, arg, ret>>

\* write_csv, line 207, and the return to main
WriteRows ==
    /\ pc = "rows"
    /\ files' = [files EXCEPT ![Path] = writerows(@, Data)]
    /\ pc' = AfterCall.pc
    /\ site' = AfterCall.site
    /\ UNCHANGED <<events, i, raw_out, all_rows, fanduel_rows,
                   requests, replies, rc, arg, ret>>

\* line 269
Return ==
    /\ pc = "return"
    /\ pc' = "done"
    /\ rc' = 0
    /\ UNCHANGED <<site, events, i, raw_out, all_rows, fanduel_rows,
                   requests, replies, files, arg, ret>>

\* the process is killed, at whatever line it is outside the try block of an event
Terminate ==
    /\ pc \in RunningPcs
    /\ pc' = "killed"
    /\ IF pc \in WritePcs
       THEN \E left \in OnDisk(files[Path], pc, Data) :
                files' = [files EXCEPT ![Path] = left]
       ELSE files' = files
    /\ UNCHANGED <<site, events, i, raw_out, all_rows, fanduel_rows,
                   requests, replies, rc, arg, ret>>

\* The process is killed inside the try block of one event, lines 232-247: while
\* it waits for the reply (session.get, line 98: the request is sent, nothing
\* answered), once fetch_event_player_props has returned or raised (line 233),
\* once the body is appended to raw_out (line 234), or once the rows are added to
\* all_rows (lines 236-239). i is still that of the event.
TerminateInFetch ==
    /\ pc = "loop"
    /\ i <= Len(events)
    /\ events[i].object
    /\ OrEmptyVal(events[i].id) # ""
    /\ pc' = "killed"
    /\ requests' = Append(requests, events[i].id)
    /\ \/ UNCHANGED <<replies, raw_out, all_rows>>
       \/ \E reply \in Replies(events[i].id) :
              /\ replies' = Append(replies, Logged(reply))
              /\ \/ UNCHANGED <<raw_out, all_rows>>
                 \/ /\ reply.status = "ok"
                    /\ raw_out' = Append(raw_out, reply.body)
                    /\ all_rows' \in {all_rows,
                                      EventStep(raw_out, all_rows, reply).all_rows}
    /\ UNCHANGED <<site, events, i, fanduel_rows, rc, files, arg, ret>>

\* one run of the script
Next ==
    \/ FetchEventsFail
    \/ FetchEventsOk(MaxEvents)
    \/ LoopCrash
    \/ LoopSkip
    \/ LoopFetch
    \/ FilterCrash
    \/ LoopEnd
    \/ OpenJson
    \/ Dump
    \/ OpenCsvEmpty
    \/ OpenCsv
    \/ WriteHeader
    \/ WriteRows
    \/ Return
    \/ Terminate
    \/ TerminateInFetch

Spec == Init /\ [][Next]_vars

\* run after run in one directory, each listing of up to MaxRunEvents entries
NextRuns ==
    \/ NewRun
    \/ FetchEventsFail
    \/ FetchEventsOk(MaxRunEvents)
    \/ LoopCrash
    \/ LoopSkip
    \/ LoopFetch
    \/ FilterCrash
    \/ LoopEnd
    \/ OpenJson
    \/ Dump
    \/ OpenCsvEmpty
    \/ OpenCsv
    \/ WriteHeader
    \/ WriteRows
    \/ Return
    \/ Terminate
    \/ TerminateInFetch

SpecRuns == Init /\ [][NextRuns]_vars

\* ---------------------------------------------------------------- the functions alone

\* main is not running: its state is that of Init
IdleMain ==
    /\ FreshLocals
    /\ files = NoFiles

\* _american_to_prob on two prices
Prices == {Num(a) : a \in (-PriceBound)..PriceBound}

InitProb ==
    /\ pc = "prob_call"
    /\ arg \in Prices \X Prices
    /\ ret = <<>>
    /\ IdleMain

CallProb ==
    /\ pc = "prob_call"
    /\ ret' = <<_american_to_prob(arg[1]), _american_to_prob(arg[2])>>
    /\ pc' = "prob_ret"
    /\ UNCHANGED <<arg, mainvars>>

SpecProb == InitProb /\ [][CallProb]_vars

\* flatten_events_to_rows, then filter_fanduel_rows, on one event with one FanDuel
\* market of up to MaxOutcomes outcomes, alone or after an empty event
Subjects == {<<"A", <<5>>>>, <<"A", <<6>>>>, <<"B", <<5>>>>}

OutcomeSet ==
    {Outcome(nm, sb[1], sb[2], pr) :
        nm \in {s_Over, s_Under}, sb \in Subjects,
        pr \in {Num(-150), Num(130), Num(0), NoPrice, Text}}

OutcomeSeqs == UNION {[1..n -> OutcomeSet] : n \in 0..MaxOutcomes}

OneMarketEvent(outcomes) ==
    Event("object", "e1",
          <<Bookmaker(s_fanduel, "FanDuel", <<Market("player_points", outcomes)>>)>>)

InitFlatten ==
    /\ pc = "flatten_call"
    /\ \E outcomes \in OutcomeSeqs : \E lead \in {<<>>, <<EmptyEvent>>} :
          arg = lead \o <<OneMarketEvent(outcomes)>>
    /\ ret = <<>>
    /\ IdleMain

CallFlatten ==
    /\ pc = "flatten_call"
    /\ ret' = flatten_events_to_rows(arg).rows
    /\ pc' = "flatten_ret"
    /\ UNCHANGED <<arg, mainvars>>

CallFilter ==
    /\ pc = "flatten_ret"
    /\ ret' = filter_fanduel_rows(ret).rows
    /\ pc' = "pipeline_ret"
    /\ UNCHANGED <<arg, mainvars>>

NextFlatten ==
    \/ CallFlatten
    \/ CallFilter

SpecFlatten == InitFlatten /\ [][NextFlatten]_vars

\* filter_fanduel_rows on up to MaxRows rows, and, where it returns, again on its
\* own result
Row(bookmaker, market, outcome) ==
    [event_id |-> "e1", home_team |-> "home", away_team |-> "away",
     commence_time |-> "ct", bookmaker |-> bookmaker, bookmaker_title |-> "bt",
     bookmaker_last_update |-> "bu", market_last_update |-> "mu",
     market |-> market, outcome |-> outcome, description |-> "A",
     point |-> <<5>>, price_american |-> Num(-150),
     implied_prob |-> <<600000>>, no_vig_prob |-> <<579832>>]

RowSet ==
    {Row(bk, mk, oc) :
        bk \in {s_FanDuel, s_FanDuel_fw, s_fanduel_sp, s_draftkings, NoneStr, NotStr},
        mk \in {"player_points", "h2h"},
        oc \in {s_Over, s_UNDER, s_sp_over, s_Over_ff, s_Yes, NotStr}}

RowSeqs == UNION {[1..n -> RowSet] : n \in 0..MaxRows}

InitFilter ==
    /\ pc = "filter_call"
    /\ arg \in RowSeqs
    /\ ret = <<>>
    /\ IdleMain

CallFilterRows ==
    /\ pc = "filter_call"
    /\ ret' = filter_fanduel_rows(arg).rows
    /\ pc' = IF filter_fanduel_rows(arg).raised THEN "filter_raised" ELSE "filter_ret"
    /\ UNCHANGED <<arg, mainvars>>

CallFilterAgain ==
    /\ pc = "filter_ret"
    /\ ret' = filter_fanduel_rows(ret).rows
    /\ pc' = "refilter_ret"
    /\ UNCHANGED <<arg, mainvars>>

NextFilter ==
    \/ CallFilterRows
    \/ CallFilterAgain

SpecFilter == InitFilter /\ [][NextFilter]_vars

\* ---------------------------------------------------------------- what the claims speak of

\* s is the lower-case ASCII word t when case is ignored
EqIgnoreCase(s, t) ==
    /\ Len(s) = Len(t)
    /\ \A k \in 1..Len(t) : s[k] = t[k] \/ s[k] = t[k] - 32

\* s is t, case ignored, between runs of whitespace
EqTrimmedIgnoreCase(s, t) ==
    \E a \in 0..Len(s) : \E b \in a..Len(s) :
        /\ \A k \in 1..a : s[k] \in Whitespace
        /\ \A k \in (b + 1)..Len(s) : s[k] \in Whitespace
        /\ EqIgnoreCase(SubSeq(s, a + 1, b), t)

AllowedMarkets == {"player_points_rebounds_assists", "player_points",
                   "player_assists", "player_threes"}

IsTargetBookmaker(r) == r.bookmaker # NoneStr /\ EqIgnoreCase(r.bookmaker, s_fanduel)

\* the side is Over or Under, case ignored, exactly
IsOverUnder(r) ==
    /\ r.outcome # NoneStr
    /\ EqIgnoreCase(r.outcome, s_over) \/ EqIgnoreCase(r.outcome, s_under)

\* the side is Over or Under, case and surrounding whitespace ignored
IsOverUnderTrimmed(r) ==
    /\ r.outcome # NoneStr
    /\ EqTrimmedIgnoreCase(r.outcome, s_over) \/ EqTrimmedIgnoreCase(r.outcome, s_under)

Qualifies(r) ==
    IsTargetBookmaker(r) /\ r.market \in AllowedMarkets /\ IsOverUnder(r)

QualifiesTrimmed(r) ==
    IsTargetBookmaker(r) /\ r.market \in AllowedMarkets /\ IsOverUnderTrimmed(r)

\* the rows of the events of this run that were fetched and flattened without
\* an exception, in the order of the replies
RECURSIVE RowsOfSuccessful(_)
RowsOfSuccessful(rs) ==
    IF rs = <<>> THEN <<>>
    ELSE LET reply == Head(rs)
             flat == flatten_events_to_rows(<<reply.body>>)
         IN  (IF reply.status = "ok" /\ ~flat.raised THEN flat.rows ELSE <<>>)
             \o RowsOfSuccessful(Tail(rs))

\* the ids of the listed events that have one, in order
RECURSIVE IdsOf(_)
IdsOf(evs) ==
    IF evs = <<>> THEN <<>>
    ELSE (IF Head(evs).id = NoneVal THEN <<>> ELSE <<Head(evs).id>>) \o IdsOf(Tail(evs))

\* a CSV file that holds exactly these rows
CsvHolding(rows) ==
    [exists |-> TRUE, doc |-> FALSE,
     header |-> IF rows = <<>> THEN <<>> ELSE RowKeys, rows |-> rows]

\* a JSON file that holds exactly the list of these rows
JsonHolding(rows) == [exists |-> TRUE, doc |-> TRUE, header |-> <<>>, rows |-> rows]

RowsIn(file) == {file.rows[k] : k \in 1..Len(file.rows)}

Abs(n) == IF n < 0 THEN 0 - n ELSE n

\* ---------------------------------------------------------------- claims under Spec

\* C7 as stated: per-event failures do not stop the run. Whatever events fail, the
\* run asks for every listed event with an id, in order; the accumulated rows are
\* exactly the rows of the events fetched and flattened without an exception,
\* concatenated in event order (a failed event adds none); the run that has visited
\* every event writes the four files with its rows and exits with status 0; the
\* exit status is non-zero only when the events listing could not be fetched, and
\* then no per-event request was made. (A process that was killed is no run of the
\* claim: it may have died between a request and its reply.)
C7_PartialSuccess ==
    /\ pc # "killed" => all_rows = RowsOfSuccessful(replies)
    /\ pc # "killed" => Len(replies) = Len(requests)
    /\ pc = "loop" => requests = IdsOf(SubSeq(events, 1, i - 1))
    /\ (pc \in WritePcs \/ rc = 0) => requests = IdsOf(events)
    /\ rc = 0 =>
          /\ files.fanduel_json = JsonHolding(SelectSeq(all_rows, QualifiesTrimmed))
          /\ files.fanduel_csv = CsvHolding(SelectSeq(all_rows, QualifiesTrimmed))
          /\ files.cleaned_csv = CsvHolding(SelectSeq(all_rows, QualifiesTrimmed))
          /\ files.flat_json = JsonHolding(all_rows)
    /\ rc \in {-1, 0, 1}
    /\ rc = 1 => requests = <<>> /\ i = 0

\* C8 as stated: no file a run writes holds a row of another bookmaker or of a side
\* other than Over/Under.
C8_NoForeignRowInAnyFile ==
    \A f \in {files.fanduel_json, files.fanduel_csv, files.cleaned_csv, files.flat_json} :
        \A r \in RowsIn(f) : IsTargetBookmaker(r) /\ IsOverUnder(r)

\* C8 amended: the FanDuel files (the dated JSON and CSV, and cleaned_props.csv) never
\* hold a row of another bookmaker, nor a row whose side, its surrounding whitespace
\* stripped and case ignored, is other than over/under, whether the run completes,
\* crashes or is killed partway.
C8_NoForeignRowInFanduelFiles ==
    \A f \in {files.fanduel_json, files.fanduel_csv, files.cleaned_csv} :
        \A r \in RowsIn(f) : IsTargetBookmaker(r) /\ IsOverUnderTrimmed(r)

\* C8's case: a completed run whose rows held another bookmaker's row and a Yes row,
\* and whose FanDuel files hold the row of side " under"
C8_Witness ==
    /\ pc = "done"
    /\ rc = 0
    /\ \E k \in 1..Len(files.cleaned_csv.rows) :
          files.cleaned_csv.rows[k].outcome = s_sp_under
    /\ \E k \in 1..Len(files.fanduel_json.rows) :
          files.fanduel_json.rows[k].outcome = s_sp_under
    /\ \E k \in 1..Len(all_rows) : all_rows[k].bookmaker = s_draftkings
    /\ \E k \in 1..Len(all_rows) :
          all_rows[k].bookmaker = s_fanduel /\ all_rows[k].outcome = s_Yes

\* ---------------------------------------------------------------- claims under SpecRuns

\* the filtered rows of the run under way, of the events that succeeded in it so far
Mine(rs) == SelectSeq(RowsOfSuccessful(rs), QualifiesTrimmed)

\* a CSV file cut short: the header and the first rows
CsvBeginning(rows) == [exists |-> TRUE, doc |-> FALSE, header |-> RowKeys, rows |-> rows]

InOpenUnit(p) == FLt[FZero(FALSE), p] /\ FLt[p, FromInt[1]]

\* C5 as stated: for every numeric price a, 0 included, the probability lies strictly
\* between 0 and 1, and for any two prices a < b the probability of b is not greater
\* than that of a.
C5_UnitRangeAndMonotone ==
    pc = "prob_ret" =>
        /\ InOpenUnit(ret[1][1])
        /\ arg[1].val < arg[2].val => FLeq[ret[2][1], ret[1][1]]

\* C5 amended: for every integer price a other than 0 the probability lies strictly
\* between 0 and 1, and for a = 0 it is 0; for two prices a < b the probability of b
\* is not greater than that of a exactly when both are on one side of 0 (b <= 0 or
\* a > 0) or |a| * b >= 10000, which holds whenever |a| >= 100 and b >= 100.
C5_UnitRangeOffZeroMonotoneOnSides ==
    pc = "prob_ret" =>
        LET a == arg[1].val
            b == arg[2].val
        IN  /\ ret[1] # <<>> /\ ret[2] # <<>>
            /\ a # 0 => InOpenUnit(ret[1][1])
            /\ a = 0 => ret[1][1].m = Zero5
            /\ a < b =>
                  (FLeq[ret[2][1], ret[1][1]] <=> (b <= 0 \/ a > 0 \/ (-a) * b >= 10000))

\* C5's case: a favourite and an underdog, both at 100 or beyond
C5_Witness ==
    /\ pc = "prob_ret"
    /\ arg[1].val <= -100
    /\ arg[2].val >= 100
    /\ FLt[ret[2][1], ret[1][1]]

\* ---------------------------------------------------------------- claims under SpecFilter

PairKey(r) == <<r.event_id, r.market, r.description, r.point>>

\* the events with only the outcomes of one description and point
KeepSubject(evs, description, point) ==
    LET Same(o) == o.description = description /\ o.point = point
        InMarket(m) == [m EXCEPT !.outcomes = SelectSeq(m.outcomes, Same)]
        InBookmaker(b) ==
            [b EXCEPT !.markets = [k \in 1..Len(b.markets) |-> InMarket(b.markets[k])]]
        InEvent(e) ==
            [e EXCEPT !.bookmakers =
                [k \in 1..Len(e.bookmakers) |-> InBookmaker(e.bookmakers[k])]]
    IN  [k \in 1..Len(evs) |-> InEvent(evs[k])]

NoVigOf(rows) == [k \in 1..Len(rows) |-> rows[k].no_vig_prob]

GroupOf(rows, k) == {j \in 1..Len(rows) : PairKey(rows[j]) = PairKey(rows[k])}

\* C1 as stated, for the rows that have a price of their own: a row's no_vig_prob
\* depends only on the prices of the rows of its pair key: with every outcome of
\* another description or point removed from the input, it comes out the same.
C1_NoVigPerPairKey ==
    pc = "pipeline_ret" =>
        \A k \in 1..Len(ret) :
            LET SameKey(r) == PairKey(r) = PairKey(ret[k])
                alone == filter_fanduel_rows(flatten_events_to_rows(
                             KeepSubject(arg, ret[k].description, ret[k].point)).rows).rows
            IN  (ret[k].price_american.kind = "num" /\ ret[k].price_american.val # 0)
                => NoVigOf(SelectSeq(ret, SameKey)) = NoVigOf(alone)

\* C2 as stated: a row whose pair key does not have exactly two rows in the output
\* has no_vig_prob unset.
C2_UnsetUnlessTwo ==
    pc = "pipeline_ret" =>
        \A k \in 1..Len(ret) :
            Cardinality(GroupOf(ret, k)) # 2 => ret[k].no_vig_prob = <<>>

\* C3 as stated: the two rows of a pair key that has exactly one Over and one Under
\* row, both prices parseable and the implied probabilities summing to more than 0,
\* have no_vig_prob values that sum to 1 within 1e-5.
C3_PairSumsToOne ==
    pc = "pipeline_ret" =>
        \A j \in 1..Len(ret) : \A k \in 1..Len(ret) :
            ( /\ GroupOf(ret, j) = {j, k}
              /\ EqIgnoreCase(ret[j].outcome, s_over)
              /\ EqIgnoreCase(ret[k].outcome, s_under)
              /\ ret[j].price_american.kind = "num"
              /\ ret[k].price_american.kind = "num"
              /\ ret[j].implied_prob # <<>> /\ ret[k].implied_prob # <<>>
              /\ ret[j].implied_prob[1] + ret[k].implied_prob[1] > 0 )
            => /\ ret[j].no_vig_prob # <<>>
               /\ ret[k].no_vig_prob # <<>>
               /\ Abs(ret[j].no_vig_prob[1] + ret[k].no_vig_prob[1] - 1000000) <= 10

\* C4 as stated: where every price of a group is missing, unparseable or 0, so that
\* the implied probabilities sum to 0, no_vig_prob is unset on the group's rows.
C4_UnsetOnZeroSum ==
    pc = "pipeline_ret" =>
        \A k \in 1..Len(ret) :
            (\A j \in GroupOf(ret, k) :
                \/ ret[j].price_american.kind \in {"none", "text"}
                \/ ret[j].price_american.val = 0)
            => ret[k].no_vig_prob = <<>>

\* C6 as stated: a row whose price is absent or not numeric has implied_prob null.
C6_NullImpliedForBadPrice ==
    pc \in {"flatten_ret", "pipeline_ret"} =>
        \A k \in 1..Len(ret) :
            ret[k].price_american.kind \in {"none", "text"} => ret[k].implied_prob = <<>>

====
